---- MODULE Spec2Model ----
(***************************************************************************)
(* Model of the two form screens of Make-a-Homie: Login                    *)
(* (src/Frontend/Login.jsx) and Register (src/unnamed/part_000).           *)
(* Each screen keeps three pieces of React state (userId, password,        *)
(* error), posts them to a fixed endpoint on submit, and on the response   *)
(* either navigates away (Login also writes localStorage) or shows an      *)
(* error.  The requests issued (with the effects their handler performed  *)
(* once settled), the submissions made and the error object caught last    *)
(* are kept so that the order of events can be stated.                     *)
(***************************************************************************)
EXTENDS Integers, Sequences, FiniteSets

VARIABLES route, userId, password, error, localStorage, reqs, submits, err

vars == <<route, userId, password, error, localStorage, reqs, submits, err>>

(* ---------------------------- bounds ----------------------------------- *)
MaxSubmits == 2

Idents  == {"", "alice", "bob"}
Secrets == {"", "pw123"}
Details == {"", "user exists"}

(* ------------------------- values of the code -------------------------- *)
Screens == {"Login", "Register"}

NoItem      == "<no item>"
Undefined   == "<undefined>"
NoResponse  == "<no response>"
NothingCaught == "<nothing caught>"

LoginUrl    == "http://127.0.0.1:8000/login"
RegisterUrl == "http://127.0.0.1:8000/register"

LoginRoute    == "/"
RegisterRoute == "/register"
ProfileRoute  == "/profile"
Routes == {LoginRoute, RegisterRoute, ProfileRoute}

LoginGeneric    == "Login failed."
RegisterGeneric == "Registration failed."
AlertText       == "Registration successful! Please log in."

(* The screen the router shows at a path. *)
ScreenAt(path) ==
    IF path = LoginRoute THEN "Login"
    ELSE IF path = RegisterRoute THEN "Register"
    ELSE "Profile"

Mounted(s) == ScreenAt(route) = s

(* A rejected request: no response at all, or a response whose body has a  *)
(* detail (a string) or none.                                              *)
Rejections == {NoResponse, Undefined} \cup Details

(* err.response?.data?.detail *)
DetailOf(rej) == IF rej = NoResponse THEN Undefined ELSE rej

(* JavaScript truthiness of a string-or-undefined value. *)
Truthy(v) == v # Undefined /\ v # ""

LoginErrorTextGeneric(rej) == LoginGeneric

LoginErrorText(rej) ==
    IF Truthy(DetailOf(rej)) THEN DetailOf(rej) ELSE LoginGeneric

RegisterErrorTextDefined(rej) ==
    IF DetailOf(rej) # Undefined THEN DetailOf(rej) ELSE RegisterGeneric

RegisterErrorText(rej) ==
    IF Truthy(DetailOf(rej)) THEN DetailOf(rej) ELSE RegisterGeneric

FormValidAlways(s) == TRUE

(* The `required` attribute of both inputs: the form's submit event is     *)
(* fired only when both values are non-empty.                              *)
FormValid(s) == userId[s] # "" /\ password[s] # ""

(* ----------------------- React / router plumbing ----------------------- *)
DetachNone(rs, s) == rs

(* The requests whose issuing component instance has been unmounted: the   *)
(* state setters they captured no longer update anything shown.            *)
Detach(rs, s) ==
    [i \in DOMAIN rs |->
        IF rs[i].screen = s THEN [rs[i] EXCEPT !.live = FALSE] ELSE rs[i]]

(* The state of a screen's fields across a navigation: the instance that   *)
(* is unmounted loses its state, the one that is mounted starts from       *)
(* useState("").                                                           *)
Fresh(f, from, to) ==
    IF ScreenAt(to) # ScreenAt(from)
    THEN [s \in Screens |-> IF s \in {ScreenAt(from), ScreenAt(to)} THEN "" ELSE f[s]]
    ELSE f

(* navigate(to), with rs and es the requests and error state as the        *)
(* caller leaves them.                                                     *)
Navigate(to, rs, es) ==
    /\ route' = to
    /\ userId' = Fresh(userId, route, to)
    /\ password' = Fresh(password, route, to)
    /\ error' = Fresh(es, route, to)
    /\ reqs' = IF ScreenAt(to) # ScreenAt(route) THEN Detach(rs, ScreenAt(route)) ELSE rs

Request(s, url) ==
    [screen |-> s, url |-> url, user_id |-> userId[s], password |-> password[s],
     live |-> TRUE, st |-> "pending", effects |-> << >>, after |-> 0]

Settle(i, st, effs) ==
    [reqs EXCEPT ![i] = [@ EXCEPT !.st = st, !.effects = effs, !.after = Len(reqs)]]

Effect(kind, arg) == [kind |-> kind, arg |-> arg]

(* ------------------------------- Init ---------------------------------- *)
Init ==
    /\ route = LoginRoute
    /\ userId = [s \in Screens |-> ""]
    /\ password = [s \in Screens |-> ""]
    /\ error = [s \in Screens |-> ""]
    /\ localStorage = NoItem
    /\ reqs = << >>
    /\ submits = << >>
    /\ err = NothingCaught

(* ------------------------------ actions -------------------------------- *)
SetUserId(s, v) ==
    /\ Mounted(s)
    /\ userId' = [userId EXCEPT ![s] = v]
    /\ UNCHANGED <<route, password, error, localStorage, reqs, submits, err>>

SetPassword(s, v) ==
    /\ Mounted(s)
    /\ password' = [password EXCEPT ![s] = v]
    /\ UNCHANGED <<route, userId, error, localStorage, reqs, submits, err>>

handleLoginKeepsError ==
    /\ Mounted("Login")
    /\ FormValid("Login")
    /\ Len(reqs) < MaxSubmits
    /\ submits' = Append(submits, [screen |-> "Login",
                                   identifier |-> userId["Login"],
                                   secret |-> password["Login"]])
    /\ reqs' = Append(reqs, Request("Login", LoginUrl))
    /\ UNCHANGED <<route, userId, password, error, localStorage, err>>

(* handleLogin up to the await: setError(""), axios.post(...). *)
handleLogin ==
    /\ Mounted("Login")
    /\ FormValid("Login")
    /\ Len(reqs) < MaxSubmits
    /\ submits' = Append(submits, [screen |-> "Login",
                                   identifier |-> userId["Login"],
                                   secret |-> password["Login"]])
    /\ error' = [error EXCEPT !["Login"] = ""]
    /\ reqs' = Append(reqs, Request("Login", LoginUrl))
    /\ UNCHANGED <<route, userId, password, localStorage, err>>

handleLoginThenCurrentField(i) ==
    /\ reqs[i].screen = "Login"
    /\ reqs[i].st = "pending"
    /\ localStorage' = userId["Login"]
    /\ Navigate(ProfileRoute,
                Settle(i, "ok", << Effect("setItem", userId["Login"]),
                                   Effect("navigate", ProfileRoute) >>),
                error)
    /\ UNCHANGED <<submits, err>>

(* handleLogin after the await resolved. *)
handleLoginThen(i) ==
    /\ reqs[i].screen = "Login"
    /\ reqs[i].st = "pending"
    /\ localStorage' = reqs[i].user_id
    /\ Navigate(ProfileRoute,
                Settle(i, "ok", << Effect("setItem", reqs[i].user_id),
                                   Effect("navigate", ProfileRoute) >>),
                error)
    /\ UNCHANGED <<submits, err>>

handleLoginCatchClearsPassword(i, rej) ==
    /\ reqs[i].screen = "Login"
    /\ reqs[i].st = "pending"
    /\ err' = rej
    /\ reqs' = Settle(i, "failed", << >>)
    /\ error' = IF reqs[i].live
                THEN [error EXCEPT !["Login"] = LoginErrorText(rej)]
                ELSE error
    /\ password' = IF reqs[i].live
                   THEN [password EXCEPT !["Login"] = ""]
                   ELSE password
    /\ UNCHANGED <<route, userId, localStorage, submits>>

(* handleLogin's catch block. *)
handleLoginCatch(i, rej) ==
    /\ reqs[i].screen = "Login"
    /\ reqs[i].st = "pending"
    /\ err' = rej
    /\ reqs' = Settle(i, "failed", << >>)
    /\ error' = IF reqs[i].live
                THEN [error EXCEPT !["Login"] = LoginErrorText(rej)]
                ELSE error
    /\ UNCHANGED <<route, userId, password, localStorage, submits>>

Abort(rs, s) ==
    [i \in DOMAIN rs |->
        IF rs[i].screen = s /\ rs[i].st = "pending"
        THEN [rs[i] EXCEPT !.st = "cancelled"] ELSE rs[i]]

SignUpCancels ==
    /\ Mounted("Login")
    /\ Navigate(RegisterRoute, Abort(reqs, "Login"), error)
    /\ UNCHANGED <<localStorage, submits, err>>

(* The "Sign up" link of the login screen. *)
SignUp ==
    /\ Mounted("Login")
    /\ Navigate(RegisterRoute, reqs, error)
    /\ UNCHANGED <<localStorage, submits, err>>

(* handleRegister up to the await. *)
handleRegister ==
    /\ Mounted("Register")
    /\ FormValid("Register")
    /\ Len(reqs) < MaxSubmits
    /\ submits' = Append(submits, [screen |-> "Register",
                                   identifier |-> userId["Register"],
                                   secret |-> password["Register"]])
    /\ error' = [error EXCEPT !["Register"] = ""]
    /\ reqs' = Append(reqs, Request("Register", RegisterUrl))
    /\ UNCHANGED <<route, userId, password, localStorage, err>>

handleRegisterThenNoAlert(i) ==
    /\ reqs[i].screen = "Register"
    /\ reqs[i].st = "pending"
    /\ Navigate(LoginRoute,
                Settle(i, "ok", << Effect("navigate", LoginRoute) >>),
                error)
    /\ UNCHANGED <<localStorage, submits, err>>

(* handleRegister after the await resolved. *)
handleRegisterThen(i) ==
    /\ reqs[i].screen = "Register"
    /\ reqs[i].st = "pending"
    /\ Navigate(LoginRoute,
                Settle(i, "ok", << Effect("alert", AlertText),
                                   Effect("navigate", LoginRoute) >>),
                error)
    /\ UNCHANGED <<localStorage, submits, err>>

handleRegisterCatchRetry(i, rej) ==
    /\ reqs[i].screen = "Register"
    /\ reqs[i].st = "pending"
    /\ err' = rej
    /\ reqs' = Append(Settle(i, "failed", << >>),
                      [reqs[i] EXCEPT !.st = "pending"])
    /\ error' = IF reqs[i].live
                THEN [error EXCEPT !["Register"] = RegisterErrorText(rej)]
                ELSE error
    /\ UNCHANGED <<route, userId, password, localStorage, submits>>

(* handleRegister's catch block. *)
handleRegisterCatch(i, rej) ==
    /\ reqs[i].screen = "Register"
    /\ reqs[i].st = "pending"
    /\ err' = rej
    /\ reqs' = Settle(i, "failed", << >>)
    /\ error' = IF reqs[i].live
                THEN [error EXCEPT !["Register"] = RegisterErrorText(rej)]
                ELSE error
    /\ UNCHANGED <<route, userId, password, localStorage, submits>>

(* The "Log in" link of the registration screen. *)
LogIn ==
    /\ Mounted("Register")
    /\ Navigate(LoginRoute, reqs, error)
    /\ UNCHANGED <<localStorage, submits, err>>

Next ==
    \/ \E s \in Screens, v \in Idents : SetUserId(s, v)
    \/ \E s \in Screens, v \in Secrets : SetPassword(s, v)
    \/ handleLogin
    \/ \E i \in DOMAIN reqs : handleLoginThen(i)
    \/ \E i \in DOMAIN reqs, rej \in Rejections : handleLoginCatch(i, rej)
    \/ SignUp
    \/ handleRegister
    \/ \E i \in DOMAIN reqs : handleRegisterThen(i)
    \/ \E i \in DOMAIN reqs, rej \in Rejections : handleRegisterCatch(i, rej)
    \/ LogIn

Spec == Init /\ [][Next]_vars

(* ------------------------ vocabulary of the claims --------------------- *)
Ids == DOMAIN reqs

SettlesOk(i) == reqs[i].st = "pending" /\ reqs'[i].st = "ok"

SettlesFailed(i) == reqs[i].st = "pending" /\ reqs'[i].st = "failed"

RouteOfScreen(s) == IF s = "Login" THEN "/" ELSE "/register"

TargetOfScreen(s) == IF s = "Login" THEN "/profile" ELSE "/"

EndpointOfScreen(s) ==
    IF s = "Login" THEN "http://127.0.0.1:8000/login"
    ELSE "http://127.0.0.1:8000/register"

GenericOfScreen(s) == IF s = "Login" THEN "Login failed." ELSE "Registration failed."

(* Request j was submitted before request i settled, i earlier than j. *)
SubmittedDuring(j, i) == i < j /\ (reqs[i].st = "pending" \/ reqs[i].after >= j)

(* ------------------------------- C1 ------------------------------------ *)
(* C1: a login request that resolves successfully leaves the entry         *)
(* "userId" equal to the identifier submitted with it and the route at     *)
(* "/profile"; its handler performed exactly the write of that identifier  *)
(* followed by the navigation to "/profile".                               *)
C1_Effects ==
    \A i \in Ids :
       reqs[i].screen = "Login" /\ reqs[i].st = "ok" =>
          /\ reqs[i].user_id = submits[i].identifier
          /\ reqs[i].effects = << [kind |-> "setItem", arg |-> submits[i].identifier],
                                  [kind |-> "navigate", arg |-> "/profile"] >>

C1_LoginSuccessStoresSubmittedId ==
    /\ []C1_Effects
    /\ [][\A i \in Ids : reqs[i].screen = "Login" /\ SettlesOk(i) =>
             /\ localStorage' = submits[i].identifier
             /\ route' = "/profile"]_vars

(* A login succeeded although a second login with another identifier was   *)
(* submitted (the field edited) while it was in flight.                    *)
C1_Witness ==
    \E i \in Ids, j \in Ids :
       /\ reqs[i].screen = "Login" /\ reqs[j].screen = "Login"
       /\ reqs[i].st = "ok" /\ reqs[j].st = "pending"
       /\ SubmittedDuring(j, i)
       /\ reqs[j].user_id # reqs[i].user_id
       /\ localStorage = reqs[i].user_id

(* ------------------------------- C2 ------------------------------------ *)
(* C2 as stated: a failed request whose response carries detail X, for     *)
(* every string X, leaves the error equal to X; with no response or no     *)
(* detail the error is the screen's generic message.                       *)
C2_Original ==
    [][\A i \in Ids : SettlesFailed(i) =>
          LET s == reqs[i].screen IN
          /\ err' \in Details => error'[s] = err'
          /\ err' \in {NoResponse, Undefined} => error'[s] = GenericOfScreen(s)]_vars

(* C2 amended: when the failure arrives while the submitting screen is     *)
(* still shown, a non-empty detail X is displayed exactly; no response, no *)
(* detail, or an empty detail give the screen's generic message.           *)
C2_ErrorDisplay ==
    [][\A i \in Ids : SettlesFailed(i) /\ reqs[i].live =>
          LET s == reqs[i].screen IN
          /\ err' \in Details \ {""} => error'[s] = err'
          /\ err' \in {NoResponse, Undefined, ""} => error'[s] = GenericOfScreen(s)]_vars

(* The latest submission, a login, was rejected with an empty detail while *)
(* its screen was shown.                                                   *)
C2_Witness ==
    /\ err = ""
    /\ error["Login"] = "Login failed."
    /\ \E i \in Ids : /\ reqs[i].screen = "Login" /\ reqs[i].st = "failed"
                      /\ reqs[i].live /\ reqs[i].after = Len(reqs)

(* ------------------------------- C3 ------------------------------------ *)
(* C3: the requests issued are, one for one and in order, the submissions  *)
(* made: each goes to its screen's endpoint with the submitted identifier  *)
(* and secret, and no other request (no retry) is ever issued.             *)
C3_OneRequestPerSubmission ==
    /\ Len(reqs) = Len(submits)
    /\ \A i \in Ids :
          /\ reqs[i].url = EndpointOfScreen(submits[i].screen)
          /\ reqs[i].user_id = submits[i].identifier
          /\ reqs[i].password = submits[i].secret

(* Two submissions were made and one of them has failed. *)
C3_Witness ==
    /\ Len(submits) = 2
    /\ \E i \in Ids : reqs[i].st = "failed" /\ reqs[i].screen = "Register"
    /\ \E i \in Ids : reqs[i].screen = "Login"

(* ------------------------------- C4 ------------------------------------ *)
(* C4: a registration request that resolved successfully presented the     *)
(* confirmation exactly once, immediately followed by navigation to "/",   *)
(* and the step that resolved it left the route at "/"; a registration     *)
(* request that has not succeeded caused no confirmation and no            *)
(* navigation.                                                             *)
C4_Effects ==
    \A i \in Ids : reqs[i].screen = "Register" =>
       LET alerts == {k \in DOMAIN reqs[i].effects : reqs[i].effects[k].kind = "alert"}
       IN  IF reqs[i].st = "ok"
           THEN /\ Cardinality(alerts) = 1
                /\ Len(reqs[i].effects) = 2
                /\ \A k \in alerts :
                      /\ k + 1 \in DOMAIN reqs[i].effects
                      /\ reqs[i].effects[k + 1] = [kind |-> "navigate", arg |-> "/"]
           ELSE reqs[i].effects = << >>

C4_RegistrationSuccess ==
    /\ []C4_Effects
    /\ [][\A i \in Ids : reqs[i].screen = "Register" =>
             /\ SettlesOk(i) => route' = "/"
             /\ SettlesFailed(i) => route' = route]_vars

(* One registration succeeded, another failed. *)
C4_Witness ==
    /\ \E i \in Ids : reqs[i].screen = "Register" /\ reqs[i].st = "ok"
    /\ \E i \in Ids : reqs[i].screen = "Register" /\ reqs[i].st = "failed"
    /\ route = "/"

(* ------------------------------- C5 ------------------------------------ *)
(* C5 as stated: while a submission's request is in flight and its screen  *)
(* is shown, the displayed error is empty.                                 *)
C5_Original ==
    \A i \in Ids : reqs[i].st = "pending" /\ reqs[i].live =>
       error[reqs[i].screen] = ""

(* C5 amended: while a submission's request is in flight and its screen is *)
(* shown, the displayed error is empty unless the failure of another       *)
(* request of that screen arrived after the submission was made.           *)
C5_ErrorClearedOnSubmit ==
    \A i \in Ids : reqs[i].st = "pending" /\ reqs[i].live =>
       \/ error[reqs[i].screen] = ""
       \/ \E j \in Ids \ {i} :
             /\ reqs[j].screen = reqs[i].screen
             /\ reqs[j].st = "failed"
             /\ reqs[j].live
             /\ reqs[j].after >= i

(* An error was displayed, and the next submission cleared it. *)
C5_Witness ==
    \E i \in Ids, j \in Ids :
       /\ reqs[i].st = "pending" /\ reqs[i].live
       /\ reqs[j].screen = reqs[i].screen
       /\ reqs[j].st = "failed" /\ reqs[j].live /\ reqs[j].after < i
       /\ error[reqs[i].screen] = ""

(* ------------------------------- C6 ------------------------------------ *)
(* C6: no request is ever issued with an empty user_id or an empty         *)
(* password.                                                               *)
C6_NoEmptyFieldRequest ==
    \A i \in Ids : reqs[i].user_id # "" /\ reqs[i].password # ""

(* A request has been issued, and the form that issued it now has an empty *)
(* identifier field.                                                       *)
C6_Witness ==
    /\ Len(reqs) = 1
    /\ \E s \in Screens :
          Mounted(s) /\ reqs[1].screen = s /\ userId[s] = "" /\ password[s] # ""

(* ------------------------------- C7 ------------------------------------ *)
NoErrorSet == \A s \in Screens : error'[s] # "" => error'[s] = error[s]

Settled == [][\A i \in Ids : /\ reqs'[i].st \in {"pending", "ok", "failed"}
                            /\ reqs[i].st # "pending" => reqs'[i].st = reqs[i].st]_vars

(* C7 as stated: a settling request ends in Success or Failed; Failed      *)
(* leaves the screen shown, idle, with a non-empty error; Success leaves   *)
(* the screen and sets no error.                                           *)
C7_Original ==
    /\ Settled
    /\ [][\A i \in Ids :
            LET s == reqs[i].screen IN
            /\ SettlesFailed(i) =>
                  /\ error'[s] # ""
                  /\ route' = RouteOfScreen(s)
                  /\ \A j \in Ids : reqs'[j].screen = s => reqs'[j].st # "pending"
            /\ SettlesOk(i) => route' # RouteOfScreen(s) /\ NoErrorSet]_vars

(* C7 amended: a settling request ends in exactly one of Success or        *)
(* Failed, for good.  Failed, when the submitting screen is still shown,   *)
(* leaves it shown with a non-empty error (idle unless another of its      *)
(* requests is in flight); Failed after the screen was left changes        *)
(* neither route nor error.  Success navigates away from the screen and    *)
(* sets no error.                                                          *)
C7_StateMachine ==
    /\ Settled
    /\ [][\A i \in Ids :
            LET s == reqs[i].screen IN
            /\ SettlesFailed(i) /\ reqs[i].live =>
                  /\ error'[s] # ""
                  /\ route' = RouteOfScreen(s)
                  /\ route' = route
            /\ SettlesFailed(i) /\ ~reqs[i].live =>
                  route' = route /\ error' = error
            /\ SettlesOk(i) => route' # RouteOfScreen(s) /\ NoErrorSet]_vars

(* A registration failed with an empty detail while shown, after a login   *)
(* that failed after its screen had been left.                             *)
C7_Witness ==
    /\ err = ""
    /\ route = "/register"
    /\ error["Register"] # ""
    /\ \E i \in Ids : /\ reqs[i].screen = "Register" /\ reqs[i].st = "failed"
                      /\ reqs[i].live /\ reqs[i].after = Len(reqs)
    /\ \E i \in Ids : /\ reqs[i].screen = "Login" /\ reqs[i].st = "failed"
                      /\ ~reqs[i].live

(* ------------------------------- C8 ------------------------------------ *)
(* Request i is in flight and another request of its screen, which         *)
(* overlapped with it, has already settled.                                *)
LastOfOverlap(i) ==
    \E j \in Ids \ {i} :
       /\ reqs[j].screen = reqs[i].screen
       /\ reqs[j].st # "pending"
       /\ (j > i \/ reqs[j].after >= i)

ShowsFailure(i) ==
    LET s == reqs[i].screen
    IN  /\ route' = RouteOfScreen(s)
        /\ error'[s] = IF err' \in {NoResponse, Undefined, ""}
                       THEN GenericOfScreen(s) ELSE err'

ShowsSuccess(i) ==
    /\ route' = TargetOfScreen(reqs[i].screen)
    /\ reqs[i].screen = "Login" => localStorage' = reqs[i].user_id

(* C8 as stated: of two overlapping submissions of a screen the response   *)
(* that returns last determines what is displayed.                         *)
C8_Original ==
    [][\A i \in Ids : LastOfOverlap(i) =>
          /\ SettlesFailed(i) => ShowsFailure(i)
          /\ SettlesOk(i) => ShowsSuccess(i)]_vars

(* C8 amended: of two overlapping submissions of a screen the response     *)
(* that returns last determines what is displayed, except that a failure   *)
(* returning after the screen was left (as after the other's success)      *)
(* changes nothing of what is displayed or stored.                         *)
C8_LastResponseWins ==
    [][\A i \in Ids : LastOfOverlap(i) =>
          /\ SettlesFailed(i) /\ reqs[i].live => ShowsFailure(i)
          /\ SettlesFailed(i) /\ ~reqs[i].live =>
                UNCHANGED <<route, userId, password, error, localStorage>>
          /\ SettlesOk(i) => ShowsSuccess(i)]_vars

(* Two overlapping logins: the first to return succeeded, the last failed. *)
C8_Witness ==
    \E i \in Ids, j \in Ids :
       /\ i # j
       /\ reqs[i].screen = "Login" /\ reqs[j].screen = "Login"
       /\ reqs[i].st = "ok" /\ reqs[j].st = "failed"
       /\ reqs[i].after = 2 /\ reqs[j].after = 2
       /\ ~reqs[j].live
       /\ route = "/profile"

(* ------------------------------- C9 ------------------------------------ *)
(* C9: the entry "userId" changes only in a step in which a login request  *)
(* resolves successfully; a failing request on either screen leaves the    *)
(* fields, the route and the storage as they were.                         *)
C9_Frame ==
    [][/\ localStorage' # localStorage =>
             \E i \in Ids : reqs[i].screen = "Login" /\ SettlesOk(i)
       /\ \A i \in Ids : SettlesFailed(i) =>
             UNCHANGED <<userId, password, route, localStorage>>]_vars

(* A login failed on the shown screen, whose fields are still filled,      *)
(* after a registration had succeeded; nothing was stored.                 *)
C9_Witness ==
    /\ localStorage = NoItem
    /\ \E i \in Ids : /\ reqs[i].screen = "Login" /\ reqs[i].st = "failed"
                      /\ reqs[i].live /\ reqs[i].user_id = "bob"
                      /\ userId["Login"] = "bob" /\ password["Login"] # ""
                      /\ error["Login"] # ""
    /\ \E i \in Ids : reqs[i].screen = "Register" /\ reqs[i].st = "ok"

(* ------------------------------- C10 ----------------------------------- *)
(* C10: a request in flight stays in flight until its response arrives,    *)
(* whatever else happens; and a login that resolves successfully writes    *)
(* its identifier and navigates to "/profile" also when its screen has     *)
(* been left or another submission was made meanwhile.                     *)
C10_NoCancellation ==
    [][\A i \in Ids :
          /\ reqs[i].st = "pending" =>
                /\ reqs'[i].st \in {"pending", "ok", "failed"}
                /\ reqs'[i].user_id = reqs[i].user_id
          /\ /\ reqs[i].screen = "Login"
             /\ SettlesOk(i)
             /\ (~reqs[i].live \/ \E j \in Ids : j > i)
             => localStorage' = reqs[i].user_id /\ route' = "/profile"]_vars

(* A login succeeded after the user had left for the registration screen   *)
(* and submitted there.                                                    *)
C10_Witness ==
    \E i \in Ids, j \in Ids :
       /\ reqs[i].screen = "Login" /\ reqs[i].st = "ok"
       /\ reqs[j].screen = "Register"
       /\ SubmittedDuring(j, i)
       /\ localStorage = reqs[i].user_id
       /\ route = "/profile"
====
